---- MODULE Spec2Model ----
(***************************************************************************)
(* WhatBulk: the batch loop, the per-contact handling, the send-button     *)
(* locator ladder and the anti-ban pacing of whatbulk1.py (class Whatsapp  *)
(* and its __main__ loop) and whatbulk2.py (class WhatsAppSender).         *)
(* The browser is the environment: every driver call either succeeds or    *)
(* raises, chosen nondeterministically.                                    *)
(***************************************************************************)
EXTENDS Integers, Sequences, FiniteSets, TLC

\* Bounds of the model.
MaxContacts == 3
MaxThreshold == 2
MaxNameLen == 5
MaxNumberLen == 4

VARIABLES
    version,                  \* 1: whatbulk1.py, 2: whatbulk2.py
    message_type,             \* "text" | "media" (whatbulk2 only)
    message_threshold_range,  \* <<lo, hi>>
    n,                        \* number of rows of contacts.csv
    pc,                       \* position of the single control flow
    index,                    \* row being processed, 1..n (0 before the first)
    strategy,                 \* position in the locator ladder inside find_send_button
    send_element,             \* what find_send_button returned: "none", "None" or an xpath name
    success,                  \* return value of the send function
    result,                   \* return value of handle_contact (whatbulk2)
    message_count,
    random_break_threshold,
    windows,                  \* len(driver.window_handles)
    invalid,                  \* whatbulk1: the `invalid` DataFrame
    sent_numbers_df,
    invalid_numbers_df,
    failed_numbers_df,
    results,                  \* whatbulk2: the master list of process_contacts
    trace,                    \* history: steps executed for the current contact
    tried,                    \* history: strategies tried by the current find_send_button call
    lastDelay,                \* history: the last completed randomized_delay call
    fn,                       \* the helper function under call: "none", "greeting" or "phone"
    arg,                      \* its argument: [isstr, chars]
    out,                      \* its return value: [done, val]
    driver,                   \* self.driver: "None", "started" or "quit"
    is_driver_active,         \* is_driver_active (whatbulk1: is_driver_available)
    quits,                    \* history: the driver.quit() calls made
    columns                   \* the columns of contacts.csv

cfg == <<version, message_type, message_threshold_range, n>>
pacing == <<message_count, random_break_threshold>>
tables == <<invalid, sent_numbers_df, invalid_numbers_df, failed_numbers_df, results>>
locator == <<strategy, send_element, tried>>
call == <<fn, arg, out>>
session == <<driver, is_driver_active, quits, columns>>
vars == <<cfg, call, session, pc, index, locator, success, result, pacing, windows, tables, trace, lastDelay>>

Range(s) == {s[k] : k \in 1..Len(s)}

Count(s, e) == Cardinality({k \in 1..Len(s) : s[k] = e})

\* Position of the first occurrence of e in s, 0 when absent.
First(s, e) == IF e \in Range(s) THEN CHOOSE k \in 1..Len(s) : s[k] = e /\ \A j \in 1..(k - 1) : s[j] # e ELSE 0

\* message_threshold_range is a constructor argument (default (10, 15)); the
\* model draws it from the ranges of counts 1..MaxThreshold.
ThresholdRanges == {r \in (1..MaxThreshold) \X (1..MaxThreshold) : r[1] <= r[2]}

\* random.randint(*self.message_threshold_range)
randint(r) == r[1]..r[2]

NoCall == [done |-> FALSE, val |-> <<>>]

NoDelay == [calls |-> 0, threshold |-> 0, cooldown |-> FALSE, count |-> 0]

\* The columns both files read from every row.
Required == {"Name", "Contact No"}

\* The session is up: the driver runs, WhatsApp Web is logged in and
\* contacts.csv has been read with both columns.
LoggedIn ==
    /\ driver = "started"
    /\ is_driver_active = TRUE
    /\ quits = 0
    /\ columns = Required

Init ==
    /\ version \in {1, 2}
    /\ message_type \in IF version = 2 THEN {"text", "media"} ELSE {"text"}
    /\ message_threshold_range \in ThresholdRanges
    /\ n \in 0..MaxContacts
    /\ pc = "iter"
    /\ index = 0
    /\ strategy = 0
    /\ send_element = "none"
    /\ success = FALSE
    /\ result = "none"
    /\ message_count = 0
    /\ random_break_threshold \in randint(message_threshold_range)
    /\ windows = 1
    /\ invalid = <<>>
    /\ sent_numbers_df = <<>>
    /\ invalid_numbers_df = <<>>
    /\ failed_numbers_df = <<>>
    /\ results = <<>>
    /\ trace = <<>>
    /\ tried = <<>>
    /\ lastDelay = NoDelay
    /\ fn = "none"
    /\ arg = [isstr |-> TRUE, chars |-> <<>>]
    /\ out = NoCall
    /\ LoggedIn

\* Faulty variant of AppendRow: the row goes first.
PrependRow(df, row) == <<row>> \o df

\* pd.concat([df, new_row], ignore_index=True) and list.append: the row goes last.
AppendRow(df, row) == Append(df, row)

Step(name) == trace' = Append(trace, name)

Steps(names) == trace' = trace \o names

(***************************************************************************)
(* The batch loop: `for index, row in df.iterrows()` of process_contacts   *)
(* (whatbulk2) and of __main__ (whatbulk1).                                *)
(***************************************************************************)
iterrows ==
    /\ pc = "iter"
    /\ index < n => "Contact No" \in columns
    /\ IF index < n
       THEN /\ index' = index + 1
            /\ pc' = "open"
       ELSE /\ index' = index
            /\ pc' = "save"
    /\ trace' = <<>>
    /\ strategy' = 0
    /\ send_element' = "none"
    /\ tried' = <<>>
    /\ success' = FALSE
    /\ result' = "none"
    /\ UNCHANGED <<cfg, call, session, pacing, windows, tables, lastDelay>>

\* result_df.to_csv / invalid.to_csv: the tables are written as they stand.
to_csv ==
    /\ pc = "save"
    /\ pc' = "done"
    /\ UNCHANGED <<cfg, call, session, index, locator, success, result, pacing, windows, tables, trace, lastDelay>>

(***************************************************************************)
(* Opening the chat in a new tab.  The script call may raise before a      *)
(* window exists; the switch (and, in whatbulk2, the wait for the message  *)
(* box) raises with the new tab open.  whatbulk1's open_contact_in_new_tab *)
(* logs and re-raises, which reaches the loop's except clause.             *)
(***************************************************************************)
\* Faulty variant of OpenRaised: the failure to open is ignored.
OpenRaisedIgnored == "probe"

\* An exception of the opening step reaches the except clause (whatbulk2
\* line 307; whatbulk1 line 165 re-raises into line 271).
OpenRaised == "except"

open_contact_in_new_tab ==
    /\ pc = "open"
    /\ version = 1
    /\ \/ /\ windows' = windows + 1
          /\ Step("open")
          /\ pc' = "probe"
       \/ /\ windows' = windows + 1
          /\ Steps(<<"open", "open_raised">>)
          /\ pc' = OpenRaised
       \/ /\ windows' = windows
          /\ Steps(<<"open", "open_raised">>)
          /\ pc' = OpenRaised
    /\ UNCHANGED <<cfg, call, session, index, locator, success, result, pacing, tables, lastDelay>>

handle_contact_open ==
    /\ pc = "open"
    /\ version = 2
    /\ \/ /\ windows' = windows + 1
          /\ Step("open")
          /\ pc' = "probe"
       \/ /\ windows' = windows + 1
          /\ Steps(<<"open", "open_raised">>)
          /\ pc' = OpenRaised
       \/ /\ windows' = windows
          /\ Steps(<<"open", "open_raised">>)
          /\ pc' = OpenRaised
    /\ UNCHANGED <<cfg, call, session, index, locator, success, result, pacing, tables, lastDelay>>

(***************************************************************************)
(* The locator ladders of find_send_button.  whatbulk1 tries aria-label    *)
(* first and then loops over alternative_xpaths; whatbulk2 loops over one  *)
(* list that ends with the content-editable fallback.                      *)
(***************************************************************************)
alternative_xpaths == <<"data-testid", "icon", "class">>

\* Faulty variant of xpath_strategies: the loop stops one strategy short.
xpath_strategies_short ==
    IF version = 1
    THEN <<"aria-label", "data-testid", "icon">>
    ELSE <<"aria-label", "data-testid", "icon", "class">>

xpath_strategies ==
    IF version = 1
    THEN <<"aria-label">> \o alternative_xpaths
    ELSE <<"aria-label", "data-testid", "icon", "class", "contenteditable">>

\* handle_contact: `if self.message_type == "text" ... elif "media" ... else`.
SendEntry == IF message_type = "media" THEN "attach" ELSE "find"

\* Faulty variant of AfterProbe: the probe's answer is ignored.
AfterProbeIgnored(found) == SendEntry

\* `if self.is_invalid_number(): ... return "invalid"`, else the send.
AfterProbe(found) == IF found THEN "invalid" ELSE SendEntry

(***************************************************************************)
(* The invalid-number probe: is_invalid_number (whatbulk2) and             *)
(* handle_invalid_number (whatbulk1).  Found: True; TimeoutException:      *)
(* False; any other exception leaves the function.                         *)
(***************************************************************************)
is_invalid_number ==
    /\ pc = "probe"
    /\ version = 2
    /\ \/ \E found \in BOOLEAN :
             /\ pc' = AfterProbe(found)
             /\ Step(IF found THEN "probe_invalid" ELSE "probe_valid")
       \/ /\ pc' = "except"
          /\ Step("probe_raised")
    /\ UNCHANGED <<cfg, call, session, index, locator, success, result, pacing, windows, tables, lastDelay>>

handle_invalid_number ==
    /\ pc = "probe"
    /\ version = 1
    /\ \/ \E found \in BOOLEAN :
             /\ pc' = AfterProbe(found)
             /\ Step(IF found THEN "probe_invalid" ELSE "probe_valid")
       \/ /\ pc' = "except"
          /\ Step("probe_raised")
    /\ UNCHANGED <<cfg, call, session, index, locator, success, result, pacing, windows, tables, lastDelay>>

Row(error) == [number |-> index, error |-> error]

\* Faulty variant of return_invalid: "invalid" is returned without the row.
return_invalid_without_row ==
    /\ pc = "invalid"
    /\ version = 2
    /\ result' = "invalid"
    /\ Step("row")
    /\ pc' = "finally"
    /\ UNCHANGED <<cfg, call, session, index, locator, success, pacing, windows, tables, lastDelay>>

\* whatbulk2 lines 287-289: the invalid row, then `return "invalid"`.
return_invalid ==
    /\ pc = "invalid"
    /\ version = 2
    /\ invalid_numbers_df' = AppendRow(invalid_numbers_df, Row("Invalid number"))
    /\ result' = "invalid"
    /\ Step("row")
    /\ pc' = "finally"
    /\ UNCHANGED <<cfg, call, session, index, locator, success, pacing, windows, invalid, sent_numbers_df,
                   failed_numbers_df, results, lastDelay>>

\* whatbulk1 lines 257-258: the invalid row; the close and the `continue` follow.
record_invalid ==
    /\ pc = "invalid"
    /\ version = 1
    /\ invalid' = AppendRow(invalid, Row("Invalid number"))
    /\ Step("row")
    /\ pc' = "close"
    /\ UNCHANGED <<cfg, call, session, index, locator, success, result, pacing, windows, sent_numbers_df,
                   invalid_numbers_df, failed_numbers_df, results, lastDelay>>

(***************************************************************************)
(* find_send_button: one strategy per step.  A clickable element is        *)
(* returned at once; TimeoutException / NoSuchElementException moves on to *)
(* the next strategy and, after the last one, returns None; any other      *)
(* exception leaves find_send_button.  In whatbulk2 the call is outside    *)
(* send_text_message's try, so it reaches handle_contact's except; in      *)
(* whatbulk1 it is inside send_message's try, which returns False.         *)
(***************************************************************************)
\* Faulty variant of NextStrategy: a failed strategy is tried again.
RetryStrategy(k) == IF k = 0 THEN 1 ELSE k

\* `for xpath in xpath_strategies`: the next strategy of the list.
NextStrategy(k) == k + 1

\* Faulty variant of ReturnFalse: the failure path goes through the pacing step.
ReturnFalsePaced == "delay"

\* Faulty variant of ReturnFalse: the send function lets the exception out.
ReturnFalseRaises == "except"

\* `return False` of send_message, send_text_message and send_media_message:
\* the caller's `if success` / `if instance.send_message()` is next.
ReturnFalse == "classify"

\* Where an exception that leaves find_send_button lands: whatbulk2 calls it
\* outside send_text_message's try (line 159), so handle_contact's except
\* clause gets it; whatbulk1 calls it inside send_message's try (line 183),
\* whose `except Exception` returns False.
FindRaised == IF version = 2 THEN "except" ELSE ReturnFalse

find_send_button ==
    /\ pc = "find"
    /\ LET k == NextStrategy(strategy)
           xpath == xpath_strategies[k]
       IN /\ strategy' = k
          /\ success' = success
          /\ \/ /\ tried' = Append(tried, [xpath |-> xpath, outcome |-> "found"])
                /\ Step("find")
                /\ send_element' = xpath
                /\ pc' = "click"
             \/ /\ k < Len(xpath_strategies)
                /\ tried' = Append(tried, [xpath |-> xpath, outcome |-> "timeout"])
                /\ Step("find")
                /\ send_element' = send_element
                /\ pc' = "find"
             \/ /\ k = Len(xpath_strategies)
                /\ tried' = Append(tried, [xpath |-> xpath, outcome |-> "timeout"])
                /\ Step("find")
                /\ send_element' = "None"
                /\ pc' = ReturnFalse
             \/ /\ tried' = Append(tried, [xpath |-> xpath, outcome |-> "error"])
                /\ Steps(<<"find", "find_raised">>)
                /\ send_element' = send_element
                /\ pc' = FindRaised
    /\ UNCHANGED <<cfg, call, session, index, result, pacing, windows, tables, lastDelay>>

(***************************************************************************)
(* whatbulk2 send_text_message, lines 160-173: Enter on the                *)
(* content-editable div, a click on anything else; any exception returns   *)
(* False.                                                                  *)
(***************************************************************************)
send_text_message ==
    /\ pc = "click"
    /\ version = 2
    /\ LET key == IF send_element = "contenteditable" THEN "enter" ELSE "click"
       IN \/ /\ Step(key)
             /\ pc' = "delay"
          \/ /\ Steps(<<key, "alert", "send_raised">>)
             /\ pc' = ReturnFalse
          \/ /\ Steps(<<key, "send_raised">>)
             /\ pc' = ReturnFalse
    /\ success' = success
    /\ UNCHANGED <<cfg, call, session, index, locator, result, pacing, windows, tables, lastDelay>>

(***************************************************************************)
(* whatbulk1 send_message, lines 184-205: the click; on an unexpected      *)
(* alert the alert is accepted and the click repeated once; any other      *)
(* exception returns False.                                                *)
(***************************************************************************)
send_message ==
    /\ pc = "click"
    /\ version = 1
    /\ \/ /\ Step("click")
          /\ pc' = "delay"
       \/ /\ Steps(<<"click", "alert">>)
          /\ pc' = "alert"
       \/ /\ Steps(<<"click", "send_raised">>)
          /\ pc' = ReturnFalse
    /\ success' = success
    /\ UNCHANGED <<cfg, call, session, index, locator, result, pacing, windows, tables, lastDelay>>

send_message_alert ==
    /\ pc = "alert"
    /\ version = 1
    /\ \/ /\ Steps(<<"accept", "click">>)
          /\ pc' = "delay"
       \/ /\ Steps(<<"accept", "click", "send_raised">>)
          /\ pc' = ReturnFalse
       \/ /\ Steps(<<"accept_raised", "send_raised">>)
          /\ pc' = ReturnFalse
    /\ success' = success
    /\ UNCHANGED <<cfg, call, session, index, locator, result, pacing, windows, tables, lastDelay>>

(***************************************************************************)
(* whatbulk2 send_media_message: attach, file input, optional caption,     *)
(* send.  Each of attach, file input and send returns False on any         *)
(* exception; the caption's exception is logged and the send still runs.   *)
(***************************************************************************)
send_media_attach ==
    /\ pc = "attach"
    /\ \/ /\ Step("attach")
          /\ pc' = "file"
       \/ /\ Steps(<<"attach", "send_raised">>)
          /\ pc' = ReturnFalse
    /\ success' = success
    /\ UNCHANGED <<cfg, call, session, index, locator, result, pacing, windows, tables, lastDelay>>

send_media_file ==
    /\ pc = "file"
    /\ \/ /\ Step("file")
          /\ pc' = "caption"
       \/ /\ Steps(<<"file", "send_raised">>)
          /\ pc' = ReturnFalse
    /\ success' = success
    /\ UNCHANGED <<cfg, call, session, index, locator, result, pacing, windows, tables, lastDelay>>

\* The caption's except clause (whatbulk2 lines 214-216) only logs: the
\* function goes on to the send button.
CaptionRaised == "media_send"

\* `if message:` the formatted template may be empty; found or not, the send is next.
send_media_caption ==
    /\ pc = "caption"
    /\ \/ /\ trace' = trace
          /\ pc' = "media_send"
       \/ /\ Step("caption")
          /\ pc' = "media_send"
       \/ /\ Steps(<<"caption", "caption_raised">>)
          /\ pc' = CaptionRaised
    /\ UNCHANGED <<cfg, call, session, index, locator, success, result, pacing, windows, tables, lastDelay>>

send_media_send ==
    /\ pc = "media_send"
    /\ \/ /\ Step("media_send")
          /\ pc' = "delay"
       \/ /\ Steps(<<"media_send", "send_raised">>)
          /\ pc' = ReturnFalse
    /\ success' = success
    /\ UNCHANGED <<cfg, call, session, index, locator, result, pacing, windows, tables, lastDelay>>

(***************************************************************************)
(* randomized_delay (the same in both files): the short sleep and the      *)
(* increment; at the threshold the long sleep, then the reset and a fresh  *)
(* threshold.  Every caller returns True right after it.                   *)
(***************************************************************************)
\* Faulty variants of BreakDue: the break comes one call late, one call early.
BreakLate(count, threshold) == count > threshold

BreakEarly(count, threshold) == count + 1 >= threshold

\* `if self.message_count >= self.random_break_threshold`
BreakDue(count, threshold) == count >= threshold

Calls == IF lastDelay.cooldown THEN 1 ELSE lastDelay.calls + 1

\* Faulty variant of randomized_delay: the counter is reset before the long break.
randomized_delay_resets_early ==
    /\ pc = "delay"
    /\ Step("delay")
    /\ random_break_threshold' = random_break_threshold
    /\ IF BreakDue(message_count + 1, random_break_threshold)
       THEN /\ message_count' = 0
            /\ pc' = "pause"
            /\ success' = success
            /\ lastDelay' = lastDelay
       ELSE /\ message_count' = message_count + 1
            /\ pc' = "classify"
            /\ success' = TRUE
            /\ lastDelay' = [calls |-> Calls, threshold |-> random_break_threshold,
                             cooldown |-> FALSE, count |-> message_count + 1]
    /\ UNCHANGED <<cfg, call, session, index, locator, result, windows, tables>>

randomized_delay ==
    /\ pc = "delay"
    /\ Step("delay")
    /\ message_count' = message_count + 1
    /\ random_break_threshold' = random_break_threshold
    /\ IF BreakDue(message_count + 1, random_break_threshold)
       THEN /\ pc' = "pause"
            /\ success' = success
            /\ lastDelay' = lastDelay
       ELSE /\ pc' = "classify"
            /\ success' = TRUE
            /\ lastDelay' = [calls |-> Calls, threshold |-> random_break_threshold,
                             cooldown |-> FALSE, count |-> message_count + 1]
    /\ UNCHANGED <<cfg, call, session, index, locator, result, windows, tables>>

long_break ==
    /\ pc = "pause"
    /\ Step("cooldown")
    /\ message_count' = 0
    /\ random_break_threshold' \in randint(message_threshold_range)
    /\ pc' = "classify"
    /\ success' = TRUE
    /\ lastDelay' = [calls |-> Calls, threshold |-> random_break_threshold,
                     cooldown |-> TRUE, count |-> 0]
    /\ UNCHANGED <<cfg, call, session, index, locator, result, windows, tables>>

(***************************************************************************)
(* Ctrl-C during one of the two time.sleep calls of randomized_delay: the  *)
(* short one (before the increment) or the long one (after the increment,  *)
(* before the reset).  KeyboardInterrupt is not an Exception, so no except *)
(* clause of either file catches it; whatbulk2's handle_contact still runs *)
(* its finally (the close-tab call), then the process ends.                *)
(***************************************************************************)
KeyboardInterrupt ==
    /\ pc \in {"delay", "pause"}
    /\ pc' = "interrupted"
    /\ IF version = 2
       THEN /\ Step("close")
            /\ windows' \in {windows - 1, windows}
       ELSE /\ trace' = trace
            /\ windows' = windows
    /\ UNCHANGED <<cfg, call, session, index, locator, success, result, pacing, tables, lastDelay>>

(***************************************************************************)
(* The outcome of the send.  whatbulk2 lines 299-306: a sent row and       *)
(* "success", or a failed row and "failed".  whatbulk1 lines 262-267: a    *)
(* 'Send failed' row when send_message returned False, nothing otherwise.  *)
(***************************************************************************)
handle_contact_classify ==
    /\ pc = "classify"
    /\ version = 2
    /\ IF success
       THEN /\ sent_numbers_df' = AppendRow(sent_numbers_df, Row(""))
            /\ failed_numbers_df' = failed_numbers_df
            /\ result' = "success"
       ELSE /\ failed_numbers_df' = AppendRow(failed_numbers_df, Row("Failed to send"))
            /\ sent_numbers_df' = sent_numbers_df
            /\ result' = "failed"
    /\ Step("row")
    /\ pc' = "finally"
    /\ UNCHANGED <<cfg, call, session, index, locator, success, pacing, windows, invalid, invalid_numbers_df,
                   results, lastDelay>>

main_classify ==
    /\ pc = "classify"
    /\ version = 1
    /\ IF success
       THEN /\ invalid' = invalid
            /\ trace' = trace
       ELSE /\ invalid' = AppendRow(invalid, Row("Send failed"))
            /\ Step("row")
    /\ pc' = "close"
    /\ UNCHANGED <<cfg, call, session, index, locator, success, result, pacing, windows, sent_numbers_df,
                   invalid_numbers_df, failed_numbers_df, results, lastDelay>>

(***************************************************************************)
(* The except clauses.  whatbulk2 lines 307-311: a failed row with the     *)
(* exception text and "error".  whatbulk1 lines 271-275: a row in          *)
(* `invalid` with the exception text; the guarded close follows.           *)
(***************************************************************************)
handle_contact_except ==
    /\ pc = "except"
    /\ version = 2
    /\ failed_numbers_df' = AppendRow(failed_numbers_df, Row("exception"))
    /\ result' = "error"
    /\ trace' = trace \o <<"except", "row">>
    /\ pc' = "finally"
    /\ UNCHANGED <<cfg, call, session, index, locator, success, pacing, windows, invalid, sent_numbers_df,
                   invalid_numbers_df, results, lastDelay>>

\* Faulty variant of AfterExcept: the except clause does not close the tab.
AfterExceptSkipsClose == "iter"

\* whatbulk1 lines 276-279: after the row, the close inside try / except: pass.
AfterExcept == "close_guarded"

main_except ==
    /\ pc = "except"
    /\ version = 1
    /\ invalid' = AppendRow(invalid, Row("exception"))
    /\ trace' = trace \o <<"except", "row">>
    /\ pc' = AfterExcept
    /\ UNCHANGED <<cfg, call, session, index, locator, success, result, pacing, windows, sent_numbers_df,
                   invalid_numbers_df, failed_numbers_df, results, lastDelay>>

(***************************************************************************)
(* close_current_tab / close_current_tab_and_switch_back: with more than   *)
(* one window the current one is closed and the first one selected;        *)
(* reading the handles or closing may raise with the tab still open, and   *)
(* the switch may raise with the tab closed.                               *)
(***************************************************************************)
close_current_tab(returned, raised) ==
    /\ Step("close")
    /\ \/ /\ windows > 1
          /\ windows' = windows - 1
          /\ pc' = returned
       \/ /\ windows <= 1
          /\ windows' = windows
          /\ pc' = returned
       \/ /\ windows' = windows
          /\ pc' = raised
       \/ /\ windows > 1
          /\ windows' = windows - 1
          /\ pc' = raised

\* What follows handle_contact's `finally` (whatbulk2 line 313).
FinallyReturned == "append"
FinallyRaised == "aborted"

\* What follows the close inside the try (whatbulk1 lines 259-260 and 269).
CloseReturned == "iter"
CloseRaised == "except"

\* What follows the close inside the except clause (whatbulk1 lines 276-279).
GuardedReturned == "iter"
GuardedRaised == "iter"

handle_contact_finally ==
    /\ pc = "finally"
    /\ version = 2
    /\ close_current_tab(FinallyReturned, FinallyRaised)
    /\ UNCHANGED <<cfg, call, session, index, locator, success, result, pacing, tables, lastDelay>>

main_close ==
    /\ pc = "close"
    /\ version = 1
    /\ close_current_tab(CloseReturned, CloseRaised)
    /\ UNCHANGED <<cfg, call, session, index, locator, success, result, pacing, tables, lastDelay>>

main_close_guarded ==
    /\ pc = "close_guarded"
    /\ version = 1
    /\ close_current_tab(GuardedReturned, GuardedRaised)
    /\ UNCHANGED <<cfg, call, session, index, locator, success, result, pacing, tables, lastDelay>>

\* process_contacts lines 330-336: the master row of the contact just handled.
results_append ==
    /\ pc = "append"
    /\ results' = AppendRow(results, [number |-> index, status |-> result])
    /\ Step("append")
    /\ pc' = "iter"
    /\ UNCHANGED <<cfg, call, session, index, locator, success, result, pacing, windows, invalid,
                   sent_numbers_df, invalid_numbers_df, failed_numbers_df, lastDelay>>

Next ==
    \/ iterrows
    \/ to_csv
    \/ open_contact_in_new_tab
    \/ handle_contact_open
    \/ is_invalid_number
    \/ handle_invalid_number
    \/ return_invalid
    \/ record_invalid
    \/ find_send_button
    \/ send_text_message
    \/ send_message
    \/ send_message_alert
    \/ send_media_attach
    \/ send_media_file
    \/ send_media_caption
    \/ send_media_send
    \/ randomized_delay
    \/ long_break
    \/ KeyboardInterrupt
    \/ handle_contact_classify
    \/ main_classify
    \/ handle_contact_except
    \/ main_except
    \/ handle_contact_finally
    \/ main_close
    \/ main_close_guarded
    \/ results_append

Spec == Init /\ [][Next]_vars

\* The batch under the scheduling of a single-threaded script: as long as a
\* step is possible, one is taken (every wait and every sleep returns).
SpecFair == Spec /\ WF_vars(Next)

(***************************************************************************)
(* The helper functions on names and numbers.  A Python string is a        *)
(* sequence of one-character strings; " " stands for whitespace.           *)
(***************************************************************************)
Str(chars) == [isstr |-> TRUE, chars |-> chars]

\* A value that is not a string (the NaN pandas gives for an empty cell).
NotAString == [isstr |-> FALSE, chars |-> <<>>]

Strings(alphabet, maxlen) == UNION {[1..k -> alphabet] : k \in 0..maxlen}

Names == {Str(c) : c \in Strings({"a", "b", " "}, MaxNameLen)} \cup {NotAString}

PhoneNumbers == {Str(c) : c \in Strings({"0", "1", "+", " ", "-"}, MaxNumberLen)}

RECURSIVE lstrip(_, _)
\* str.lstrip(c): every leading c is removed.
lstrip(s, c) == IF s # <<>> /\ Head(s) = c THEN lstrip(Tail(s), c) ELSE s

RECURSIVE rstrip(_, _)
rstrip(s, c) == IF s # <<>> /\ s[Len(s)] = c THEN rstrip(SubSeq(s, 1, Len(s) - 1), c) ELSE s

\* str.strip()
strip(s) == rstrip(lstrip(s, " "), " ")

\* str.replace(c, "")
remove(s, c) ==
    LET Keep(x) == x # c
    IN SelectSeq(s, Keep)

\* str.startswith(c)
startswith(s, c) == s # <<>> /\ Head(s) = c

RECURSIVE split(_)
\* str.split(): the maximal runs of non-whitespace characters.
split(s) ==
    LET t == lstrip(s, " ")
        spaces == {i \in 1..Len(t) : t[i] = " "}
        stop == IF spaces = {} THEN Len(t) + 1
                ELSE CHOOSE i \in spaces : \A j \in spaces : i <= j
    IN IF t = <<>> THEN <<>>
       ELSE <<SubSeq(t, 1, stop - 1)>> \o split(SubSeq(t, stop, Len(t)))

there == <<"t", "h", "e", "r", "e">>

country_code == <<"+", "9", "1">>

\* whatbulk1 lines 68-76.
extract_greeting_name(full_name) ==
    IF ~full_name.isstr \/ strip(full_name.chars) = <<>> THEN there
    ELSE LET tokens == split(strip(full_name.chars))
         IN IF tokens = <<>> THEN there
            ELSE IF Len(tokens[1]) <= 2 /\ Len(tokens) > 1 THEN tokens[2]
            ELSE tokens[1]

\* whatbulk2 lines 78-82.
get_greeting_name(full_name) ==
    IF ~full_name.isstr \/ strip(full_name.chars) = <<>> THEN there
    ELSE LET parts == split(strip(full_name.chars))
         IN IF Len(parts[1]) > 2 THEN parts[1]
            ELSE IF Len(parts) > 1 THEN parts[2] ELSE there

\* whatbulk1 lines 60-66.
format_phone_number(number) ==
    LET stripped == remove(strip(number.chars), " ")
    IN IF startswith(stripped, "+") THEN stripped
       ELSE country_code \o (IF startswith(stripped, "0") THEN lstrip(stripped, "0") ELSE stripped)

\* whatbulk2 lines 69-75.
format_number(number) ==
    LET stripped == remove(remove(strip(number.chars), " "), "-")
    IN IF startswith(stripped, "+") THEN stripped
       ELSE country_code \o (IF startswith(stripped, "0") THEN Tail(stripped) ELSE stripped)

batch == <<session, pc, index, locator, success, result, pacing, windows, tables, trace, lastDelay>>

\* One call of one helper, on any argument within the bounds.
InitCall ==
    /\ version \in {1, 2}
    /\ fn \in {"greeting", "phone"}
    /\ arg \in IF fn = "greeting" THEN Names ELSE PhoneNumbers
    /\ out = NoCall
    /\ message_type = "text"
    /\ message_threshold_range = <<1, 1>>
    /\ n = 0
    /\ LoggedIn
    /\ pc = "call"
    /\ index = 0
    /\ strategy = 0
    /\ send_element = "none"
    /\ success = FALSE
    /\ result = "none"
    /\ message_count = 0
    /\ random_break_threshold = 1
    /\ windows = 1
    /\ invalid = <<>>
    /\ sent_numbers_df = <<>>
    /\ invalid_numbers_df = <<>>
    /\ failed_numbers_df = <<>>
    /\ results = <<>>
    /\ trace = <<>>
    /\ tried = <<>>
    /\ lastDelay = NoDelay

Return(val) ==
    /\ ~out.done
    /\ out' = [done |-> TRUE, val |-> val]
    /\ UNCHANGED <<cfg, fn, arg, batch>>

call_extract_greeting_name ==
    /\ version = 1
    /\ fn = "greeting"
    /\ Return(extract_greeting_name(arg))

call_get_greeting_name ==
    /\ version = 2
    /\ fn = "greeting"
    /\ Return(get_greeting_name(arg))

call_format_phone_number ==
    /\ version = 1
    /\ fn = "phone"
    /\ Return(format_phone_number(arg))

call_format_number ==
    /\ version = 2
    /\ fn = "phone"
    /\ Return(format_number(arg))

NextCall ==
    \/ call_extract_greeting_name
    \/ call_get_greeting_name
    \/ call_format_phone_number
    \/ call_format_number

SpecCall == InitCall /\ [][NextCall]_vars

(***************************************************************************)
(* The scripts from start to exit: driver start and login, the load of     *)
(* contacts.csv, the batch above, the outer except clause and the finally  *)
(* that shuts the driver down.                                             *)
(***************************************************************************)
contact == <<index, locator, success, result, pacing, windows, tables, lastDelay>>

\* The script starts: nothing but the constructor has run.
InitMain ==
    /\ version \in {1, 2}
    /\ message_type \in IF version = 2 THEN {"text", "media"} ELSE {"text"}
    /\ message_threshold_range \in ThresholdRanges
    /\ n \in 0..MaxContacts
    /\ columns \in SUBSET Required
    /\ driver = "None"
    /\ is_driver_active = FALSE
    /\ quits = 0
    /\ pc = "main"
    /\ index = 0
    /\ strategy = 0
    /\ send_element = "none"
    /\ success = FALSE
    /\ result = "none"
    /\ message_count = 0
    /\ random_break_threshold \in randint(message_threshold_range)
    /\ windows = 1
    /\ invalid = <<>>
    /\ sent_numbers_df = <<>>
    /\ invalid_numbers_df = <<>>
    /\ failed_numbers_df = <<>>
    /\ results = <<>>
    /\ trace = <<>>
    /\ tried = <<>>
    /\ lastDelay = NoDelay
    /\ fn = "none"
    /\ arg = [isstr |-> TRUE, chars |-> <<>>]
    /\ out = NoCall

\* An exception reaches the outer `except Exception` of __main__.
Raise(event) ==
    /\ Step(event)
    /\ pc' = "script_failed"

\* whatbulk1 open_whatsapp: webdriver.Chrome, driver.get, the flag, the wait
\* for the chats; every exception is logged and raised again.
open_whatsapp ==
    /\ version = 1
    /\ pc = "main"
    /\ \/ /\ Raise("setup_raised")
          /\ UNCHANGED <<driver, is_driver_active>>
       \/ /\ Raise("setup_raised")
          /\ driver' = "started"
          /\ is_driver_active' = is_driver_active
       \/ /\ Raise("setup_raised")
          /\ driver' = "started"
          /\ is_driver_active' = TRUE
       \/ /\ driver' = "started"
          /\ is_driver_active' = TRUE
          /\ pc' = "load"
          /\ trace' = trace
    /\ UNCHANGED <<cfg, call, quits, columns, contact>>

\* whatbulk2 init_driver: the profile directory, then webdriver.Chrome and
\* the flag in one try.
init_driver ==
    /\ version = 2
    /\ pc = "main"
    /\ \/ /\ Raise("setup_raised")
          /\ UNCHANGED <<driver, is_driver_active>>
       \/ /\ driver' = "started"
          /\ is_driver_active' = TRUE
          /\ pc' = "login"
          /\ trace' = trace
    /\ UNCHANGED <<cfg, call, quits, columns, contact>>

\* whatbulk2 wait_for_login: driver.get and the wait for the chats.
wait_for_login ==
    /\ version = 2
    /\ pc = "login"
    /\ \/ Raise("setup_raised")
       \/ /\ pc' = "load"
          /\ trace' = trace
    /\ UNCHANGED <<cfg, call, session, contact>>

\* whatbulk1 load_csv_to_dataframe: read_csv, then the check of the columns.
load_csv_to_dataframe ==
    /\ version = 1
    /\ pc = "load"
    /\ \/ Raise("load_raised")
       \/ /\ columns # Required
          /\ Raise("load_raised")
       \/ /\ columns = Required
          /\ pc' = "iter"
          /\ trace' = trace
    /\ UNCHANGED <<cfg, call, session, contact>>

\* whatbulk2 process_contacts: read_csv in a try that prints and returns;
\* the columns are not looked at.
read_csv ==
    /\ version = 2
    /\ pc = "load"
    /\ \/ /\ Step("load_raised")
          /\ pc' = "shutdown"
       \/ /\ pc' = "iter"
          /\ trace' = trace
    /\ UNCHANGED <<cfg, call, session, contact>>

\* whatbulk2 process_contacts: row['Contact No'] of a file without that
\* column raises KeyError, which nothing in process_contacts catches.
row_contact_no ==
    /\ version = 2
    /\ pc = "iter"
    /\ index < n
    /\ "Contact No" \notin columns
    /\ Raise("load_raised")
    /\ UNCHANGED <<cfg, call, session, contact>>

\* The outer `except Exception` of __main__: it logs, then the finally runs.
script_failed ==
    /\ pc \in {"script_failed", "aborted"}
    /\ pc' = "shutdown"
    /\ UNCHANGED <<cfg, call, session, contact, trace>>

\* shutdown (whatbulk1: close_driver): quit only a driver flagged active.
shutdown ==
    IF is_driver_active /\ driver # "None"
    THEN /\ driver' = "quit"
         /\ quits' = quits + 1
         /\ is_driver_active' = FALSE
    ELSE UNCHANGED <<driver, quits, is_driver_active>>

\* The finally of __main__, reached from the end of the batch, from the
\* outer except clause and from a KeyboardInterrupt.
main_finally ==
    /\ pc \in {"done", "interrupted", "shutdown"}
    /\ shutdown
    /\ pc' = "exit"
    /\ UNCHANGED <<cfg, call, columns, contact, trace>>

\* One more call of shutdown / close_driver on the same object.
shutdown_again ==
    /\ pc = "exit"
    /\ shutdown
    /\ pc' = "exited"
    /\ UNCHANGED <<cfg, call, columns, contact, trace>>

NextMain ==
    \/ open_whatsapp
    \/ init_driver
    \/ wait_for_login
    \/ load_csv_to_dataframe
    \/ read_csv
    \/ row_contact_no
    \/ script_failed
    \/ main_finally
    \/ shutdown_again
    \/ Next

SpecMain == InitMain /\ [][NextMain]_vars

(***************************************************************************)
(* Properties.                                                             *)
(***************************************************************************)
\* The steps that belong to a send attempt.
SendSteps == {"find", "click", "enter", "attach", "file", "caption", "media_send"}

\* The contact at `index` has left its handling: the loop is about to take
\* the next row, or the batch has been aborted by an exception.
ContactLeft == index >= 1 /\ pc \in {"iter", "aborted"}

\* The rows the outcome tables hold for the current contact.
RowsOf(df) == {k \in 1..Len(df) : df[k].number = index}

\* C1: whenever the batch loop is about to take the next contact (or the
\* batch has ended for the contact), the close-tab step has been executed
\* for the contact just handled, after its tab was opened, whichever branch
\* the contact took.
C1_CleanupAlwaysRuns ==
    ContactLeft =>
        /\ "close" \in Range(trace)
        /\ First(trace, "open") < First(trace, "close")

\* C1 witness: a contact that took the exception branch has been through the
\* close-tab step and the loop is ready for the next row.
C1_Witness ==
    /\ pc = "iter"
    /\ index >= 1
    /\ index < n
    /\ "except" \in Range(trace)
    /\ "close" \in Range(trace)

\* C2: when process_contacts has completed, the master list has one entry
\* per input row and its i-th entry is the i-th row.
C2_ResultsCoverInput ==
    (version = 2 /\ pc = "done") =>
        /\ Len(results) = n
        /\ \A i \in 1..n : results[i].number = i

\* C2 witness: a completed batch of at least two contacts none of which was sent.
C2_Witness ==
    /\ version = 2
    /\ pc = "done"
    /\ n >= 2
    /\ Len(results) = n
    /\ \A i \in 1..n : results[i].status \in {"invalid", "failed", "error"}

\* C3 (as claimed): an exception raised anywhere in a contact's handling,
\* the close-tab step included, never aborts the batch, and the contact
\* that has left its handling after an exception has an error row.
C3_ExceptionNeverAbortsBatch ==
    /\ pc # "aborted"
    /\ (ContactLeft /\ "except" \in Range(trace)) =>
           \E k \in RowsOf(IF version = 1 THEN invalid ELSE failed_numbers_df) :
               (IF version = 1 THEN invalid ELSE failed_numbers_df)[k].error = "exception"

\* C4 (as claimed): handling one contact never appends more than one row to
\* the outcome tables.
C4_AtMostOneRowPerContact == Count(trace, "row") <= 1

\* C5: within one contact every send step comes after the invalid-number
\* probe, and once the probe has reported an invalid number no send step is
\* executed for the contact and its recorded outcome is the invalid one.
C5_ProbeBeforeSend ==
    /\ \A k \in 1..Len(trace) :
           trace[k] \in SendSteps =>
               \E j \in 1..(k - 1) : trace[j] \in {"probe_valid", "probe_invalid"}
    /\ "probe_invalid" \in Range(trace) =>
           /\ Range(trace) \cap SendSteps = {}
           /\ "delay" \notin Range(trace)
           /\ pc # "invalid" =>
                  IF version = 2
                  THEN /\ result = "invalid"
                       /\ RowsOf(invalid_numbers_df) # {}
                       /\ RowsOf(sent_numbers_df) = {}
                  ELSE /\ \E k \in RowsOf(invalid) : invalid[k].error = "Invalid number"
                       /\ \A k \in RowsOf(invalid) : invalid[k].error # "Send failed"

\* C5 witness: the probe has reported an invalid number and the contact has
\* been handled to its end.
C5_Witness ==
    /\ pc = "iter"
    /\ "probe_invalid" \in Range(trace)
    /\ "close" \in Range(trace)

\* The order in which the strategies are listed.
Ladder ==
    IF version = 1
    THEN <<"aria-label", "data-testid", "icon", "class">>
    ELSE <<"aria-label", "data-testid", "icon", "class", "contenteditable">>

\* C6: within one call find_send_button tries the strategies in the listed
\* order, each at most once; the element it returns is the one of the first
\* strategy that succeeded, every strategy before it failed by timeout, and
\* none is tried after it.
C6_FirstSuccessInOrder ==
    /\ Len(tried) <= Len(Ladder)
    /\ \A k \in 1..Len(tried) : tried[k].xpath = Ladder[k]
    /\ \A k \in 1..(Len(tried) - 1) : tried[k].outcome = "timeout"
    /\ send_element \notin {"none", "None"} =>
           /\ tried[Len(tried)].outcome = "found"
           /\ tried[Len(tried)].xpath = send_element

\* C6 witness: the first two strategies failed, the third succeeded and its
\* element has been used; the fourth was never tried.
C6_Witness ==
    /\ send_element = "icon"
    /\ Len(tried) = 3
    /\ tried[1].outcome = "timeout"
    /\ tried[2].outcome = "timeout"
    /\ pc = "iter"

\* C7: find_send_button returns None exactly when every strategy of the
\* ladder has been tried and each failed by timeout / not-found; in that
\* case no exception has left it.
C7_NotFoundAfterAll ==
    LET exhausted == /\ Len(tried) = Len(Ladder)
                     /\ \A k \in 1..Len(tried) : tried[k].outcome = "timeout"
    IN /\ send_element = "None" <=> exhausted
       /\ (exhausted /\ "close" \notin Range(trace)) =>
              /\ pc # "except"
              /\ "except" \notin Range(trace)

\* C7 witness: all strategies timed out and None was returned.
C7_Witness ==
    /\ send_element = "None"
    /\ Len(tried) = Len(Ladder)
    /\ pc = "classify"

\* C8: outside the long break of a randomized_delay call that is running
\* or was interrupted, and so right after every return of randomized_delay,
\* message_count is below random_break_threshold.
C8_CountBelowThreshold ==
    pc \notin {"pause", "interrupted"} => message_count < random_break_threshold

\* C8 witness: randomized_delay has just returned from a call that reached
\* the threshold and reset the counter.
C8_Witness ==
    /\ pc = "classify"
    /\ Len(trace) > 0
    /\ trace[Len(trace)] = "cooldown"
    /\ message_count = 0
    /\ lastDelay.threshold >= 2

\* C9 (as claimed): counting the randomized_delay calls since the threshold
\* T was sampled, no cooldown fires in the first T calls; it fires in call T + 1.
C9_CooldownAfterThresholdCalls ==
    lastDelay.calls > 0 =>
        /\ lastDelay.calls <= lastDelay.threshold => ~lastDelay.cooldown
        /\ lastDelay.cooldown => lastDelay.calls = lastDelay.threshold + 1

\* C9 (amended): no cooldown fires in the first T - 1 calls; call T fires
\* the cooldown and leaves the counter at 0.
C9_CooldownAtThresholdCall ==
    lastDelay.calls > 0 =>
        /\ lastDelay.calls <= lastDelay.threshold
        /\ lastDelay.cooldown <=> lastDelay.calls = lastDelay.threshold
        /\ lastDelay.count = IF lastDelay.cooldown THEN 0 ELSE lastDelay.calls

\* C9 witness: a threshold of at least 2 was reached by as many calls.
C9_Witness ==
    /\ lastDelay.cooldown
    /\ lastDelay.threshold >= 2
    /\ lastDelay.calls = lastDelay.threshold
    /\ message_count = 0

\* The contact at `index` was sent / was not sent, as the tables tell.
NotSent ==
    IF version = 2
    THEN result \in {"invalid", "failed", "error"}
    ELSE \E k \in RowsOf(invalid) : invalid[k].error \in {"Invalid number", "Send failed"}

\* C10 (as claimed): for every contact that has been handled the pacing step
\* ran exactly once, after the close-tab step and before the outcome was
\* appended to the result.
C10_PacingOncePerContact ==
    (pc = "iter" /\ index >= 1) =>
        /\ Count(trace, "delay") = 1
        /\ First(trace, "close") < First(trace, "delay")
        /\ version = 2 => First(trace, "delay") < First(trace, "append")

\* C10 (amended): the pacing step runs at most once per contact, only right
\* after a send click / Enter / media send that succeeded, hence before the
\* outcome row, the close-tab step and the append to the result; it does
\* not run for a contact that is invalid, failed or in error before the
\* send succeeded, and it has run for every contact reported as sent.
C10_PacingOnlyAfterSend ==
    /\ Count(trace, "delay") <= 1
    /\ \A k \in 1..Len(trace) :
           trace[k] = "delay" =>
               /\ k > 1
               /\ trace[k - 1] \in {"click", "enter", "media_send"}
               /\ \A j \in 1..k : trace[j] \notin {"row", "close", "append"}
    /\ NotSent => "delay" \notin Range(trace)
    /\ (version = 2 /\ result = "success") => "delay" \in Range(trace)
    /\ success => "delay" \in Range(trace)
    /\ ("delay" \in Range(trace) /\ pc \notin {"pause", "interrupted"}) => success

\* C10 witness: a contact reported as sent whose pacing step ran before the
\* close-tab step and the append.
C10_Witness ==
    /\ version = 2
    /\ pc = "iter"
    /\ result = "success"
    /\ First(trace, "delay") > 0
    /\ First(trace, "delay") < First(trace, "close")
    /\ First(trace, "close") < First(trace, "append")

\* The table that takes the error rows, and the texts of its rows.
ErrorTable == IF version = 1 THEN invalid ELSE failed_numbers_df

SendFailedText == IF version = 1 THEN "Send failed" ELSE "Failed to send"

HasRow(df, text) == \E k \in RowsOf(df) : df[k].error = text

\* C11 (as claimed): once find_send_button has returned None the contact is
\* recorded as send-failed, it never gets an error row, and the batch is
\* not aborted.
C11_NotFoundIsSendFailed ==
    send_element = "None" =>
        /\ pc # "classify" => HasRow(ErrorTable, SendFailedText)
        /\ ~HasRow(ErrorTable, "exception")
        /\ version = 2 => result # "error"
        /\ pc # "aborted"

\* The numbers of a table, in table order.
Numbers(df) == [k \in 1..Len(df) |-> df[k].number]

\* The numbers of the master rows whose status is in S, in master order.
WithStatus(S) ==
    LET Test(r) == r.status \in S
    IN Numbers(SelectSeq(results, Test))

\* C12: when process_contacts has completed, each per-category table holds
\* exactly the contacts of the matching master status, in input order, and
\* the three tables together have as many rows as the master list.
C12_TablesAgreeWithMaster ==
    (version = 2 /\ pc = "done") =>
        /\ Numbers(invalid_numbers_df) = WithStatus({"invalid"})
        /\ Numbers(sent_numbers_df) = WithStatus({"success"})
        /\ Numbers(failed_numbers_df) = WithStatus({"failed", "error"})
        /\ Len(invalid_numbers_df) + Len(sent_numbers_df) + Len(failed_numbers_df) = Len(results)

\* C12 witness: a completed batch with a sent, an invalid and a failed or
\* error contact.
C12_Witness ==
    /\ version = 2
    /\ pc = "done"
    /\ Len(sent_numbers_df) >= 1
    /\ Len(invalid_numbers_df) >= 1
    /\ Len(failed_numbers_df) >= 1
    /\ Len(results) = n

\* The greeting rule: "there" for a name that is not a string, empty or all
\* whitespace; else the first token, unless it has two characters or fewer
\* and a second token exists, which is then used.
GreetingRule(name) ==
    IF ~name.isstr \/ split(name.chars) = <<>> THEN there
    ELSE LET tokens == split(name.chars)
         IN IF Len(tokens[1]) <= 2 /\ Len(tokens) >= 2 THEN tokens[2] ELSE tokens[1]

\* C13 (as claimed): extract_greeting_name and get_greeting_name both return
\* what the greeting rule gives, for every name.
C13_GreetingFollowsRule ==
    (fn = "greeting" /\ out.done) => out.val = GreetingRule(arg)

\* The normalization rule: whitespace removed; unchanged when it starts with
\* '+'; else one leading '0' removed, if present, and '+91' prepended.
PhoneRule(number) ==
    LET digits == remove(number.chars, " ")
    IN IF startswith(digits, "+") THEN digits
       ELSE country_code \o (IF startswith(digits, "0") THEN Tail(digits) ELSE digits)

\* C14 (as claimed): format_phone_number and format_number both return what
\* the normalization rule gives, for every number.
C14_PhoneFollowsRule ==
    (fn = "phone" /\ out.done) => out.val = PhoneRule(arg)

\* C15 (as claimed): after a locator error other than timeout / not-found no
\* later strategy is tried, find_send_button returns nothing, and the
\* contact is not recorded as send-failed.
C15_LocatorErrorPropagates ==
    "find_raised" \in Range(trace) =>
        /\ tried[Len(tried)].outcome = "error"
        /\ send_element = "none"
        /\ ~HasRow(ErrorTable, SendFailedText)
        /\ version = 2 => result # "failed"

\* C16 (as claimed): at the point where a wait of randomized_delay is
\* interrupted, message_count is below random_break_threshold.
C16_InterruptLeavesPacingConsistent ==
    pc = "interrupted" => message_count < random_break_threshold

\* C17: a call of randomized_delay has at most one cooldown; the counter
\* goes to 0 only in the step that ends a cooldown; the threshold changes
\* only in that step, and in every other step it stays as it is.
C17_ResetOnlyWithCooldown ==
    /\ [](Count(trace, "cooldown") <= Count(trace, "delay") /\ Count(trace, "cooldown") <= 1)
    /\ [][/\ (message_count' # message_count /\ message_count' = 0) =>
                 (pc = "pause" /\ trace' = Append(trace, "cooldown"))
          /\ random_break_threshold' # random_break_threshold =>
                 (pc = "pause" /\ message_count' = 0 /\ trace' = Append(trace, "cooldown"))
          /\ trace' = Append(trace, "cooldown") =>
                 /\ message_count' = 0
                 /\ random_break_threshold' \in randint(message_threshold_range)
                 /\ trace[Len(trace)] = "delay"
          /\ trace' = Append(trace, "delay") =>
                 /\ message_count' = message_count + 1
                 /\ random_break_threshold' = random_break_threshold]_vars

\* C17 witness: a later contact's call has fired a cooldown, reset the
\* counter and drawn a threshold different from the one it reached.
C17_Witness ==
    /\ index >= 2
    /\ pc = "classify"
    /\ trace[Len(trace)] = "cooldown"
    /\ message_count = 0
    /\ lastDelay.cooldown
    /\ lastDelay.calls >= 2
    /\ random_break_threshold # lastDelay.threshold

\* An exception was raised while opening or probing.
RaisedBeforeSend == {"open_raised", "probe_raised"} \cap Range(trace) # {}

\* The send function has returned False after an exception of one of its steps.
SendRaised == "send_raised" \in Range(trace)

\* The contact has been given its outcome row.
Classified == "row" \in Range(trace)

\* C18 (as claimed): once a contact has its outcome, any exception surfaced
\* while opening, probing or sending has made it an error, and it is
\* send-failed only when find_send_button returned None.
C18_ExceptionIsError ==
    Classified =>
        /\ (RaisedBeforeSend \/ SendRaised \/ "find_raised" \in Range(trace)) =>
               /\ HasRow(ErrorTable, "exception")
               /\ ~HasRow(ErrorTable, SendFailedText)
        /\ HasRow(ErrorTable, SendFailedText) => send_element = "None"

\* C18 (amended): an exception surfaced while opening or probing makes the
\* contact an error and never send-failed; an exception raised by a step of
\* the send function (click, Enter, alert handling, media attach, file
\* input, media send) is caught there and makes the contact send-failed,
\* as exhausted resolution does; nothing else makes it send-failed, except
\* whatbulk1's locator error (C15).
C18_SendExceptionIsSendFailed ==
    Classified =>
        /\ RaisedBeforeSend =>
               /\ HasRow(ErrorTable, "exception")
               /\ ~HasRow(ErrorTable, SendFailedText)
               /\ version = 2 => result = "error"
        /\ SendRaised =>
               /\ HasRow(ErrorTable, SendFailedText)
               /\ version = 2 => (result = "failed" /\ ~HasRow(ErrorTable, "exception"))
        /\ HasRow(ErrorTable, SendFailedText) =>
               \/ send_element = "None"
               \/ SendRaised
               \/ (version = 1 /\ "find_raised" \in Range(trace))

\* C18 witness: the click on the resolved send button raised and the
\* contact has been recorded as send-failed.
C18_Witness ==
    /\ Classified
    /\ SendRaised
    /\ send_element \notin {"none", "None"}
    /\ HasRow(ErrorTable, SendFailedText)
    /\ pc = "iter"

Clicks == Count(trace, "click") + Count(trace, "enter")

\* C20 (as claimed): when the send click is interrupted by an unexpected
\* alert the alert is dismissed and, once dismissed, the click is made a
\* second time; a contact sees at most two click attempts, is not sent
\* when the second one fails, and is opened once.
C20_AlertDismissedAndRetriedOnce ==
    /\ ("alert" \in Range(trace) /\ pc # "alert") =>
           {"accept", "accept_raised"} \cap Range(trace) # {}
    /\ "accept" \in Range(trace) => Clicks = 2
    /\ Clicks <= 2
    /\ Count(trace, "open") <= 1
    /\ (SendRaised /\ pc \notin {"classify"}) => ~success

\* The steps of send_media_message, in the order of the code.
MediaSteps == <<"attach", "file", "caption", "media_send">>

\* The media steps executed for the current contact, in the order executed.
MediaTrace == SelectSeq(trace, LAMBDA e : e \in Range(MediaSteps))

\* The position of a step in MediaSteps.
MediaRank(e) == CHOOSE k \in 1..Len(MediaSteps) : MediaSteps[k] = e

\* C21 (as claimed): in a media send the steps run in the order attach,
\* file input, optional caption, send, each at most once; after a failure
\* of attach, file input or send no later step is attempted, the send
\* returns not-sent, the contact is recorded as failed and the batch is not
\* aborted; after a failure of the caption step the send step is executed.
C21_MediaStepFailure ==
    (version = 2 /\ message_type = "media") =>
        /\ \A j, k \in 1..Len(MediaTrace) :
               j < k => MediaRank(MediaTrace[j]) < MediaRank(MediaTrace[k])
        /\ (MediaTrace # <<>> /\ MediaTrace[Len(MediaTrace)] # "attach") =>
               /\ MediaTrace[1] = "attach"
               /\ MediaTrace[2] = "file"
        /\ SendRaised =>
               /\ trace[First(trace, "send_raised") - 1] = MediaTrace[Len(MediaTrace)]
               /\ MediaTrace[Len(MediaTrace)] \in {"attach", "file", "media_send"}
               /\ ~success
               /\ "delay" \notin Range(trace)
               /\ Classified =>
                      /\ HasRow(failed_numbers_df, SendFailedText)
                      /\ result = "failed"
               /\ pc # "aborted"
        /\ ("caption_raised" \in Range(trace) /\ pc # CaptionRaised) =>
               "media_send" \in Range(trace)
        /\ trace # <<>> /\ trace[Len(trace)] = "caption_raised" => pc = "media_send"

\* No contact has been opened or recorded.
NothingProcessed ==
    /\ index = 0
    /\ windows = 1
    /\ invalid = <<>>
    /\ sent_numbers_df = <<>>
    /\ invalid_numbers_df = <<>>
    /\ failed_numbers_df = <<>>
    /\ results = <<>>

\* C22 (as claimed): with a contacts.csv that lacks 'Name' or 'Contact No'
\* the batch loop is never entered: the load fails, no contact is opened
\* and none is recorded.
C22_MissingColumnIsFatal ==
    columns # Required =>
        /\ NothingProcessed
        /\ pc \in {"main", "login", "load", "script_failed", "shutdown", "exit", "exited"}
        /\ pc \in {"exit", "exited"} => Range(trace) \cap {"setup_raised", "load_raised"} # {}

\* C23 (as claimed): after a failure to start the driver or to log in no
\* contact is opened or recorded, and a driver that was started has been
\* quit exactly once when the script exits, also after one more shutdown
\* call.
C23_SetupFailureAbortsBatch ==
    "setup_raised" \in Range(trace) =>
        /\ NothingProcessed
        /\ pc \in {"script_failed", "shutdown", "exit", "exited"}
        /\ quits <= 1
        /\ (pc \in {"exit", "exited"} /\ driver # "None") => (driver = "quit" /\ quits = 1)

\* C24 (as claimed): whenever the batch loop takes a row, and when it has
\* ended, only the main tab is open, and at no time is more than one
\* per-contact tab open.
C24_OneContactTab ==
    /\ pc \in {"iter", "save", "done"} => windows = 1
    /\ windows <= 2

\* The pacing step has run for the current contact.
Paced == "delay" \in Range(trace)

\* The current contact is reported as sent: whatbulk2 gives it the status
\* success in the master list, whatbulk1 gives it no row in `invalid`.
ReportedSent ==
    IF version = 2
    THEN \E k \in RowsOf(results) : results[k].status = "success"
    ELSE RowsOf(invalid) = {}

\* C25 (as claimed): message_count and random_break_threshold change only
\* in the pacing step, and a contact that has been recorded had the pacing
\* step exactly when it is reported as sent.
C25_PacingOnlyForSent ==
    /\ [][pacing' # pacing => (pc \in {"delay", "pause"} /\ pc' # "interrupted")]_vars
    /\ []((index >= 1 /\ pc = "iter") => (Paced <=> ReportedSent))

\* C26 (as claimed): unless a sleep is interrupted, every contact whose
\* processing starts is recorded and left, and the batch loop ends with
\* its results written.
C26_BatchTerminates ==
    /\ (pc = "open") ~> (pc \in {"iter", "interrupted"})
    /\ <>(pc \in {"done", "interrupted"})

====
